---- MODULE Spec2Model ----
(***************************************************************************)
(* A model of AdvancedRAGPipeline (src/core/rag_pipeline.py): query        *)
(* decomposition, hybrid (dense + BM25) search, cross-encoder re-ranking,  *)
(* cross-year comparison and the retrieve entry point.                     *)
(*                                                                         *)
(* The pipeline keeps no state between calls beyond self.documents, so a   *)
(* state of the model is the corpus, the last call (operation, arguments   *)
(* and the answers the external services gave during it) and its outcome.  *)
(* The external services (the vector store, BM25Okapi, numpy's argsort,    *)
(* the cross-encoder, the text generator) are inputs drawn from bounded    *)
(* sets.                                                                   *)
(***************************************************************************)
EXTENDS Integers, Sequences, FiniteSets, TLC

VARIABLES documents, call, out

vars == <<documents, call, out>>

(* ------------------------------- bounds -------------------------------- *)
MaxDocs == 3        \* passages in the corpus (hybrid_search, rerank)
MaxScore == 2       \* BM25 and cross-encoder scores range over 0..MaxScore
MaxK == 2           \* the k passed to hybrid_search
MaxDense == 2       \* passages the vector store returns
MaxCand == 3        \* candidates handed to rerank

Years == {"2021", "2022", "2023"}
Queries == {"risk", "revenue"}
Scores == 0..MaxScore

(* ------------------------------ helpers -------------------------------- *)
Min(a, b) == IF a <= b THEN a ELSE b

\* seq[::-1]
Reverse(seq) == [i \in 1..Len(seq) |-> seq[Len(seq) + 1 - i]]

\* seq[:n]
Take(seq, n) == SubSeq(seq, 1, Min(n, Len(seq)))

\* seq[-k:]  (Python: -0 is 0, so k = 0 keeps the whole sequence)
LastK(seq, k) ==
    IF k = 0 \/ k >= Len(seq) THEN seq
    ELSE SubSeq(seq, Len(seq) - k + 1, Len(seq))

\* all sequences over S of length at most n
SeqsUpTo(S, n) == UNION {[1..m -> S] : m \in 0..n}

Range(seq) == {seq[i] : i \in 1..Len(seq)}

(* --------------------------- data model -------------------------------- *)
\* A document of the corpus: its content stands for the passage identity,
\* its year for metadata["year"].
Document(c, y) == [content |-> c, year |-> y]

\* dataclass RetrievalResult
RetrievalResult(c, y, s, src) ==
    [content |-> c, year |-> y, score |-> s, source |-> src]

\* an outcome of a call
Return(v) == [kind |-> "return", value |-> v]
Raise(e) == [kind |-> "raise", value |-> e]

(* ------------------------- hybrid_search ------------------------------- *)
\* np.argsort(bm25_scores): the indices in ascending score order.  The
\* default kind ("quicksort") is not stable, so every order of the indices
\* of equal scores is an outcome.
argsort(bm25_scores) ==
    {p \in Permutations(1..Len(bm25_scores)) :
        \A i \in 1..(Len(bm25_scores) - 1) :
            bm25_scores[p[i]] <= bm25_scores[p[i + 1]]}

\* the first k of the ascending order instead of the last k reversed
sparse_indices_lowest(order, k) == Take(order, k)

\* np.argsort(bm25_scores)[-k:][::-1]
sparse_indices(order, k) == Reverse(LastK(order, k))

\* [self.documents[i] for i in sparse_indices]
sparse_results(order, k) ==
    [i \in 1..Len(sparse_indices(order, k)) |->
        documents[sparse_indices(order, k)[i]]]

\* self._merge_results(dense_results, sparse_results): the class defines
\* no method _merge_results, so the attribute lookup raises AttributeError.
_merge_results(dense_results, sparse) == Raise("AttributeError")

\* hybrid_search(query, k), given the vector store's answer dense_results
\* (similarity_search(query, k=k)) and the outcome of the argsort of the
\* BM25 scores of the query: both candidate lists are built, then the call
\* of line 58 raises.
hybrid_search(dense_results, order, k) ==
    _merge_results(dense_results, sparse_results(order, k))

(* ------------------------------ rerank --------------------------------- *)
\* Insert x behind every element whose score is at least x's: one step of
\* a stable descending sort.
RECURSIVE InsertDesc(_, _)
InsertDesc(sorted, x) ==
    IF sorted = <<>> THEN <<x>>
    ELSE IF Head(sorted).score >= x.score
         THEN <<Head(sorted)>> \o InsertDesc(Tail(sorted), x)
         ELSE <<x>> \o sorted

\* sorted(results, key=lambda x: x.score, reverse=True): stable, descending
RECURSIVE sorted_desc(_)
sorted_desc(results) ==
    IF results = <<>> THEN <<>>
    ELSE InsertDesc(sorted_desc(SubSeq(results, 1, Len(results) - 1)),
                    results[Len(results)])

\* for result, score in zip(results, scores): result.score = score
assign_scores(results, scores) ==
    [i \in 1..Min(Len(results), Len(scores)) |->
        [results[i] EXCEPT !.score = scores[i]]]

\* the descending order a reversed ascending sort gives: ties reversed
rerank_reversed(results, predicted) ==
    IF ~predicted.ok THEN Raise("ScoringFailure")
    ELSE Return(sorted_desc(Reverse(assign_scores(results, predicted.scores))))

\* rerank(query, results), given the cross-encoder's answer predicted:
\* either the scores of the pairs or a failure of the call.
rerank(results, predicted) ==
    IF ~predicted.ok THEN Raise("ScoringFailure")
    ELSE Return(sorted_desc(assign_scores(results, predicted.scores)))

(* --------------------------- decompose_query --------------------------- *)
\* decompose_query(query): the prompt is built, no generation call is made
\* and the name sub_queries is bound nowhere, so the return statement
\* raises NameError for every query.
decompose_query(query) == Raise("NameError")

(* ------------------------ compare_across_years ------------------------- *)
KCompare == 5

\* f"{query} (year: {year})"
filtered_query(query, year) == query \o " (year: " \o year \o ")"

\* compare_across_years(query, years): services[q] holds the answers the
\* vector store and the BM25 argsort give for the query text q.  An
\* exception of hybrid_search leaves the loop.
RECURSIVE compare_across_years(_, _, _)
compare_across_years(query, years, services) ==
    IF years = <<>> THEN Return(<<>>)
    ELSE LET results_by_year ==
                 compare_across_years(query, SubSeq(years, 1, Len(years) - 1), services)
             year == years[Len(years)]
             answers == services[filtered_query(query, year)]
             results == hybrid_search(answers.dense, answers.order, KCompare)
         IN  IF results_by_year.kind = "raise" THEN results_by_year
             ELSE IF results.kind = "raise" THEN results
             ELSE Return([y \in (DOMAIN results_by_year.value) \cup {year} |->
                            IF y = year THEN results.value
                            ELSE results_by_year.value[y]])

(* ------------------------------ retrieve ------------------------------- *)
KSub == 20
KPerSub == 5
KFinal == 10

\* the cross-encoder's answer for a list of candidates: its score of each
\* passage, or the failure of the call
predict(results, scorer) ==
    IF scorer.ok
    THEN [ok |-> TRUE, scores |-> [i \in 1..Len(results) |-> scorer.score[results[i].content]]]
    ELSE [ok |-> FALSE, scores |-> <<>>]

\* self._deduplicate(all_results): the class defines no method
\* _deduplicate, so the attribute lookup raises AttributeError.
_deduplicate(all_results) == Raise("AttributeError")

\* what one sub-query adds to all_results: rerank(sq, hybrid_search(sq, 20))[:5]
sub_query_results(sq, services) ==
    LET results == hybrid_search(services[sq].dense, services[sq].order, KSub)
    IN  IF results.kind = "raise" THEN results
        ELSE LET ranked == rerank(results.value,
                                  predict(results.value, services[sq].scorer))
             IN  IF ranked.kind = "raise" THEN ranked
                 ELSE Return(Take(ranked.value, KPerSub))

\* the loop over the sub-queries; an exception of hybrid_search or rerank
\* leaves the loop
RECURSIVE collect(_, _)
collect(sub_queries, services) ==
    IF sub_queries = <<>> THEN Return(<<>>)
    ELSE LET all_results == collect(SubSeq(sub_queries, 1, Len(sub_queries) - 1), services)
             kept == sub_query_results(sub_queries[Len(sub_queries)], services)
         IN  IF all_results.kind = "raise" THEN all_results
             ELSE IF kept.kind = "raise" THEN kept
             ELSE Return(all_results.value \o kept.value)

\* retrieve(query, strategy)
retrieve(query, services) ==
    LET sub_queries == decompose_query(query)
    IN  IF sub_queries.kind = "raise" THEN sub_queries
        ELSE LET all_results == collect(sub_queries.value, services)
             IN  IF all_results.kind = "raise" THEN all_results
                 ELSE LET unique_results == _deduplicate(all_results.value)
                      IN  IF unique_results.kind = "raise" THEN unique_results
                          ELSE Return(Take(unique_results.value, KFinal))

(* ----------------------------- the corpus ------------------------------ *)
YearList == <<"2021", "2022", "2023">>

\* a corpus of n passages whose years cycle through YearList
Corpus(n) == [i \in 1..n |-> Document(i, YearList[((i - 1) % 3) + 1])]

\* the vector store's answers: at most Min(k, MaxDense) documents
DenseAnswers(k) == SeqsUpTo(Range(documents), Min(k, MaxDense))

(* ------------------------------ actions -------------------------------- *)
NoCall == [op |-> "none"]

Init ==
    /\ documents \in {Corpus(n) : n \in 1..MaxDocs}
    /\ call = NoCall
    /\ out = Return(<<>>)

CallHybridSearch ==
    /\ call = NoCall
    /\ \E query \in Queries, k \in 1..MaxK :
       \E dense_results \in DenseAnswers(k) :
       \E bm25_scores \in [1..Len(documents) -> Scores] :
       \E order \in argsort(bm25_scores) :
        /\ call' = [op |-> "hybrid_search", query |-> query, k |-> k,
                    dense |-> dense_results, bm25 |-> bm25_scores,
                    sparse |-> sparse_results(order, k)]
        /\ out' = hybrid_search(dense_results, order, k)
        /\ UNCHANGED documents

\* candidate lists handed to rerank: distinct passages
Candidates ==
    {rs \in SeqsUpTo(Range(documents), MaxCand) :
        Len(rs) >= 1 /\ \A i, j \in 1..Len(rs) : rs[i] = rs[j] => i = j}

CallRerank ==
    /\ call = NoCall
    /\ \E query \in Queries, cs \in Candidates :
       \E predicted \in {[ok |-> TRUE, scores |-> s] : s \in [1..Len(cs) -> Scores]}
                        \cup {[ok |-> FALSE, scores |-> <<>>]} :
        LET results == [i \in 1..Len(cs) |->
                           RetrievalResult(cs[i].content, cs[i].year, 0, "hybrid")]
        IN  /\ call' = [op |-> "rerank", query |-> query, results |-> results,
                        predicted |-> predicted]
            /\ out' = rerank(results, predicted)
            /\ UNCHANGED documents

(* ----------------- decompose_query and retrieve calls ------------------ *)
MaxRetrieveDocs == 2    \* passages in the corpus
MaxSubQueries == 2      \* sub-queries the text generator writes

SubQueries == {"risk factors", "revenue trend"}

\* what the text generator would answer: a list of sub-queries, possibly
\* empty, or a failure of the call
Generations ==
    {[ok |-> TRUE, sub_queries |-> g] : g \in SeqsUpTo(SubQueries, MaxSubQueries)}
        \cup {[ok |-> FALSE, sub_queries |-> <<>>]}

Scorers ==
    {[ok |-> TRUE, score |-> f] : f \in [1..Len(documents) -> Scores]}
        \cup {[ok |-> FALSE, score |-> <<>>]}

\* the external services' answers for each query text of Q
Services(Q, withScorer) ==
    [Q -> [dense : SeqsUpTo(Range(documents), 1),
           order : Permutations(1..Len(documents)),
           scorer : IF withScorer THEN Scorers ELSE {[ok |-> FALSE, score |-> <<>>]}]]

InitRetrieve ==
    /\ documents \in {Corpus(n) : n \in 1..MaxRetrieveDocs}
    /\ call = NoCall
    /\ out = Return(<<>>)

CallDecomposeQuery ==
    /\ call = NoCall
    /\ \E query \in Queries, generated \in Generations :
        /\ call' = [op |-> "decompose_query", query |-> query,
                    generated |-> generated]
        /\ out' = decompose_query(query)
        /\ UNCHANGED documents

CallRetrieve ==
    /\ call = NoCall
    /\ \E query \in Queries, generated \in Generations :
       \E services \in Services(SubQueries, TRUE) :
        /\ call' = [op |-> "retrieve", query |-> query,
                    generated |-> generated, services |-> services]
        /\ out' = retrieve(query, services)
        /\ UNCHANGED documents

(* --------------------- compare_across_years calls ---------------------- *)
MaxCompareDocs == 6     \* passages in the corpus
MaxYears == 2           \* axis values handed to compare_across_years

InitCompare ==
    /\ documents \in {Corpus(n) : n \in 1..MaxCompareDocs}
    /\ call = NoCall
    /\ out = Return(<<>>)

\* the BM25 order of the corpus: ascending or descending in corpus position
CompareOrders ==
    {[i \in 1..Len(documents) |-> i], [i \in 1..Len(documents) |-> Len(documents) + 1 - i]}

CallCompareAcrossYears ==
    /\ call = NoCall
    /\ \E query \in Queries, years \in SeqsUpTo(Years, MaxYears) :
       \E services \in [{filtered_query(query, y) : y \in Range(years)} ->
                           [dense : SeqsUpTo(Range(documents), 1),
                            order : CompareOrders]] :
        /\ call' = [op |-> "compare_across_years", query |-> query,
                    years |-> years, services |-> services]
        /\ out' = compare_across_years(query, years, services)
        /\ UNCHANGED documents

\* The caller takes the outcome; the pipeline keeps nothing of the call.
Finish ==
    /\ call # NoCall
    /\ call' = NoCall
    /\ out' = Return(<<>>)
    /\ UNCHANGED documents

Next == CallHybridSearch \/ CallRerank \/ Finish

Spec == Init /\ [][Next]_vars

NextRetrieve == CallDecomposeQuery \/ CallRetrieve \/ Finish

SpecRetrieve == InitRetrieve /\ [][NextRetrieve]_vars

NextCompare == CallCompareAcrossYears \/ Finish

SpecCompare == InitCompare /\ [][NextCompare]_vars

(* ------------------- OrchestratorAgent.execute_plan -------------------- *)
MaxSteps == 2       \* steps of a plan

KnownAgents == {"sec_researcher", "market_data", "analyst", "auditor"}
\* "reporter" stands for an agent name no branch of execute_plan handles
PlanAgents == KnownAgents \cup {"reporter"}

\* the agents whose results another agent is handed (lines 88-93)
DepAgents == {"sec_researcher", "market_data", "analyst"}

Steps ==
    {[agent |-> a, task |-> "task", dependencies |-> d] :
        a \in PlanAgents, d \in SUBSET DepAgents}

Plans == SeqsUpTo(Steps, MaxSteps)

\* results.get(key): the entry, or None
get(results, key) == IF key \in DOMAIN results THEN results[key].by ELSE "None"

\* results[key] = value
put(results, key, value) ==
    [a \in (DOMAIN results) \cup {key} |-> IF a = key THEN value ELSE results[a]]

\* any(...) in place of all(...)
deps_ready_any(results, step) ==
    step.dependencies = {} \/ \E dep \in step.dependencies : dep \in DOMAIN results

\* all(dep in results for dep in step['dependencies'])
deps_ready(results, step) ==
    \A dep \in step.dependencies : dep \in DOMAIN results

\* results['analyst'] of a step of the auditor raises KeyError when the
\* analyst has no entry
raises_key_error(results, step) ==
    step.agent = "auditor" /\ "analyst" \notin DOMAIN results

\* what the agent of the step returns, by the arguments it is handed
agent_result(results, step, ticker) ==
    IF step.agent = "sec_researcher"
    THEN [by |-> step.agent, args |-> <<step.task, ticker>>]
    ELSE IF step.agent = "market_data"
    THEN [by |-> step.agent, args |-> <<ticker>>]
    ELSE IF step.agent = "analyst"
    THEN [by |-> step.agent,
          args |-> <<get(results, "sec_researcher"), get(results, "market_data")>>]
    ELSE [by |-> step.agent, args |-> <<results["analyst"].by>>]

InitOrchestrator ==
    /\ documents = Corpus(1)
    /\ call = NoCall
    /\ out = Return(<<>>)

IsExecutePlan == call.op = "execute_plan"
InLoop == IsExecutePlan /\ call.pc = "loop" /\ call.i <= Len(call.plan)
CurrentStep == call.plan[call.i]

\* results = {}
CallExecutePlan ==
    /\ call = NoCall
    /\ \E plan \in Plans :
        /\ call' = [op |-> "execute_plan", plan |-> plan, ticker |-> "ACME",
                    pc |-> "loop", i |-> 1, results |-> <<>>, executed |-> {}]
        /\ UNCHANGED <<documents, out>>

\* if not deps_ready: continue
SkipStep ==
    /\ InLoop
    /\ ~deps_ready(call.results, CurrentStep)
    /\ call' = [call EXCEPT !.i = @ + 1]
    /\ UNCHANGED <<documents, out>>

\* the step's agent runs and its result is stored under its name
RunStep ==
    /\ InLoop
    /\ deps_ready(call.results, CurrentStep)
    /\ CurrentStep.agent \in KnownAgents
    /\ ~raises_key_error(call.results, CurrentStep)
    /\ call' = [call EXCEPT
                  !.i = @ + 1,
                  !.executed = @ \cup {call.i},
                  !.results = put(call.results, CurrentStep.agent,
                                  agent_result(call.results, CurrentStep, call.ticker))]
    /\ UNCHANGED <<documents, out>>

\* no branch of the if/elif chain matches the agent name
PassStep ==
    /\ InLoop
    /\ deps_ready(call.results, CurrentStep)
    /\ CurrentStep.agent \notin KnownAgents
    /\ call' = [call EXCEPT !.i = @ + 1]
    /\ UNCHANGED <<documents, out>>

\* self.auditor_agent.verify(results['analyst']) without an analyst entry
RaiseStep ==
    /\ InLoop
    /\ deps_ready(call.results, CurrentStep)
    /\ raises_key_error(call.results, CurrentStep)
    /\ call' = [call EXCEPT !.pc = "done"]
    /\ out' = Raise("KeyError")
    /\ UNCHANGED documents

\* return results
ReturnResults ==
    /\ IsExecutePlan /\ call.pc = "loop" /\ call.i > Len(call.plan)
    /\ call' = [call EXCEPT !.pc = "done"]
    /\ out' = Return(call.results)
    /\ UNCHANGED documents

FinishPlan ==
    /\ IsExecutePlan /\ call.pc = "done"
    /\ call' = NoCall
    /\ out' = Return(<<>>)
    /\ UNCHANGED documents

NextOrchestrator ==
    CallExecutePlan \/ SkipStep \/ RunStep \/ PassStep \/ RaiseStep
        \/ ReturnResults \/ FinishPlan

SpecOrchestrator == InitOrchestrator /\ [][NextOrchestrator]_vars

(* ------------------------------- claims -------------------------------- *)
IsHybridCall == call.op = "hybrid_search"
IsRerankCall == call.op = "rerank"

\* the BM25 score the call saw for a document of the corpus
Bm25Of(d) == call.bm25[d.content]

InList(seq, d) == \E i \in 1..Len(seq) : seq[i].content = d.content

IsDecomposeCall == call.op = "decompose_query"
IsRetrieveCall == call.op = "retrieve"
IsCompareCall == call.op = "compare_across_years"

\* C1: decompose_query returns a non-empty list of sub-queries for every
\* query, and the one-element list of the original query when the
\* generation step fails or yields nothing; it never raises.
C1_DecomposeReturnsNonEmpty ==
    IsDecomposeCall =>
        /\ out.kind = "return"
        /\ Len(out.value) >= 1
        /\ (~call.generated.ok \/ call.generated.sub_queries = <<>>
               => out.value = <<call.query>>)

\* the sub-queries the generator wrote for the call
Generated == call.generated.sub_queries
AllScored == \A sq \in Range(Generated) : call.services[sq].scorer.ok

\* the passage is a candidate of the sub-query: the vector store or the
\* BM25 top KSub has it (the corpora here are smaller than KPerSub, so a
\* candidate of a sub-query is among its KPerSub best)
Surfaces(sq, d) ==
    \/ InList(call.services[sq].dense, d)
    \/ InList(sparse_results(call.services[sq].order, KSub), d)

\* the re-rank scores of the passage under the sub-queries that surface it
KeptScores(d) ==
    {call.services[sq].scorer.score[d.content] :
        sq \in {q \in Range(Generated) :
                   call.services[q].scorer.ok /\ Surfaces(q, d)}}

\* C2: a passage kept under two or more sub-queries with different re-rank
\* scores is in the list retrieve returns exactly once, with the highest
\* of those scores.
C2_DuplicateKeepsHighestScore ==
    IsRetrieveCall /\ call.generated.ok /\ AllScored =>
        \A d \in Range(documents) :
            Cardinality(KeptScores(d)) >= 2 =>
                /\ out.kind = "return"
                /\ Cardinality({i \in 1..Len(out.value) :
                                   out.value[i].content = d.content}) = 1
                /\ \A i \in 1..Len(out.value) :
                      out.value[i].content = d.content =>
                          \A s \in KeptScores(d) : out.value[i].score >= s

\* C3: retrieve returns at most KFinal results, each one of the KPerSub
\* best re-ranked candidates of some sub-query.
C3_RetrieveAtMostKFinal ==
    IsRetrieveCall /\ call.generated.ok /\ AllScored =>
        /\ out.kind = "return"
        /\ Len(out.value) <= KFinal
        /\ \A i \in 1..Len(out.value) :
              \E sq \in Range(Generated) :
                  /\ Surfaces(sq, out.value[i])
                  /\ out.value[i].score = call.services[sq].scorer.score[out.value[i].content]

\* C6: compare_across_years returns a mapping with exactly one key per
\* axis value supplied, and every list in it has at most 5 results.
C6_OneKeyPerYearAtMostFive ==
    IsCompareCall =>
        /\ out.kind = "return"
        /\ DOMAIN out.value = Range(call.years)
        /\ \A y \in DOMAIN out.value : Len(out.value[y]) <= 5

\* C7: compare_across_years returns a mapping in which every result
\* listed under an axis value is a passage whose metadata year is that
\* axis value.
C7_ResultsOfRequestedYearOnly ==
    IsCompareCall =>
        /\ out.kind = "return"
        /\ \A y \in DOMAIN out.value :
              \A i \in 1..Len(out.value[y]) : out.value[y][i].year = y

\* C8: when the re-ranking call fails for one sub-query, retrieve still
\* returns, and what it returns are results of the other sub-queries.
C8_ScoringFailureIsPartial ==
    IsRetrieveCall /\ call.generated.ok
    /\ (\E sq \in Range(Generated) : ~call.services[sq].scorer.ok)
    /\ (\E sq \in Range(Generated) : call.services[sq].scorer.ok) =>
        /\ out.kind = "return"
        /\ \A i \in 1..Len(out.value) :
              \E sq \in Range(Generated) :
                  /\ call.services[sq].scorer.ok
                  /\ Surfaces(sq, out.value[i])

\* C9: the list retrieve returns is ordered non-increasing by re-rank
\* score over the whole pool, whatever the order of the sub-queries: a
\* passage stands before every passage whose best score is lower.
C9_OrderedByScoreOnly ==
    IsRetrieveCall /\ call.generated.ok /\ AllScored /\ Generated # <<>> =>
        /\ out.kind = "return"
        /\ \A i, j \in 1..Len(out.value) :
              i < j => out.value[i].score >= out.value[j].score

\* C4: the list hybrid_search returns has no two entries with the same
\* passage identity, and a passage that both the dense and the sparse
\* retrieval found appears in it once, tagged hybrid.
C4_HybridNoDuplicates ==
    IsHybridCall =>
        /\ out.kind = "return"
        /\ \A i, j \in 1..Len(out.value) :
              out.value[i].content = out.value[j].content => i = j
        /\ \A d \in Range(documents) :
              InList(call.dense, d) /\ InList(call.sparse, d) =>
                 \E i \in 1..Len(out.value) :
                    /\ out.value[i].content = d.content
                    /\ out.value[i].source = "hybrid"

\* C5: for a non-empty candidate list whose scoring succeeded, the output
\* of rerank is sorted non-increasing by the newly assigned score, is a
\* permutation of the input carrying the new scores, and candidates with
\* equal new score keep their input relative order.
C5_RerankSortedStablePermutation ==
    IsRerankCall /\ call.predicted.ok =>
        /\ out.kind = "return"
        /\ Len(out.value) = Len(call.results)
        /\ \A i \in 1..(Len(out.value) - 1) :
              out.value[i].score >= out.value[i + 1].score
        /\ \E p \in Permutations(1..Len(call.results)) :
              /\ \A i \in 1..Len(out.value) :
                    out.value[i] = [call.results[p[i]] EXCEPT
                                       !.score = call.predicted.scores[p[i]]]
              /\ \A i, j \in 1..Len(out.value) :
                    i < j /\ out.value[i].score = out.value[j].score
                        => p[i] < p[j]

\* a rerank call that moved a candidate forward past two candidates of
\* equal new score
C5_Witness ==
    /\ IsRerankCall /\ call.predicted.ok /\ out.kind = "return"
    /\ Len(call.results) >= 3
    /\ call.predicted.scores[1] = call.predicted.scores[2]
    /\ call.predicted.scores[3] > call.predicted.scores[1]
    /\ out.value[1].content = call.results[3].content

\* C10 as stated: the sparse candidates are the k passages of highest BM25
\* score in descending order, and among passages of equal score the one
\* earlier in the corpus comes first, in the list and at the top-k cut.
Before(d, e) ==
    \/ Bm25Of(d) > Bm25Of(e)
    \/ Bm25Of(d) = Bm25Of(e) /\ d.content < e.content

C10_TiesByCorpusOrder ==
    IsHybridCall =>
        /\ Len(call.sparse) = Min(call.k, Len(documents))
        /\ \A i, j \in 1..Len(call.sparse) :
              i < j => Before(call.sparse[i], call.sparse[j])
        /\ \A d \in Range(documents) :
              ~InList(call.sparse, d) =>
                 \A i \in 1..Len(call.sparse) : Before(call.sparse[i], d)

\* C10 amended: the sparse candidates are Min(k, corpus size) distinct
\* passages in non-increasing BM25 score order, and no passage left out
\* has a higher score than one taken; nothing is promised about the order
\* of passages of equal score.
C10_SparseTopKDescending ==
    IsHybridCall =>
        /\ Len(call.sparse) = Min(call.k, Len(documents))
        /\ \A i, j \in 1..Len(call.sparse) :
              i < j => /\ call.sparse[i].content # call.sparse[j].content
                       /\ Bm25Of(call.sparse[i]) >= Bm25Of(call.sparse[j])
        /\ \A d \in Range(documents) :
              ~InList(call.sparse, d) =>
                 \A i \in 1..Len(call.sparse) :
                    Bm25Of(call.sparse[i]) >= Bm25Of(d)

\* a hybrid_search call whose top-k cut falls inside a group of equal
\* scores, below a passage of higher score: the passage taken from the
\* group is the one later in the corpus
C10_Witness ==
    /\ IsHybridCall
    /\ Len(call.sparse) >= 2
    /\ Bm25Of(call.sparse[1]) > Bm25Of(call.sparse[Len(call.sparse)])
    /\ \E d \in Range(documents) :
          /\ ~InList(call.sparse, d)
          /\ Bm25Of(d) = Bm25Of(call.sparse[Len(call.sparse)])
          /\ d.content < call.sparse[Len(call.sparse)].content

\* C11: in execute_plan the steps are visited once, in plan order; a step
\* is executed only if every agent named in its dependencies has an entry
\* in results when it is visited; a step visited without them is skipped
\* and no later transition executes it; and the results returned have an
\* entry exactly for the agents of the executed steps.
C11_StepRule ==
    IsExecutePlan /\ call'.op = "execute_plan" =>
        /\ call'.plan = call.plan
        /\ call'.i \in {call.i, call.i + 1}
        /\ call.executed \subseteq call'.executed
        /\ call'.executed \ call.executed \subseteq {call.i}
        /\ call'.executed \subseteq 1..(call'.i - 1)
        /\ (call.i \in call'.executed =>
               /\ call.i <= Len(call.plan)
               /\ call'.i = call.i + 1
               /\ \A dep \in call.plan[call.i].dependencies :
                     dep \in DOMAIN call.results)
        /\ DOMAIN call'.results = {call.plan[j].agent : j \in call'.executed}
        /\ (out'.kind = "return" /\ call'.pc = "done" => out'.value = call.results)

C11_ExecutePlanDependencies == [][C11_StepRule]_vars

\* a finished execute_plan call whose first step named a dependency that a
\* later step provided: the first step was skipped, the later one ran, and
\* the results returned hold the later one's entry only
C11_Witness ==
    /\ IsExecutePlan /\ call.pc = "done" /\ out.kind = "return"
    /\ Len(call.plan) >= 2
    /\ call.plan[1].agent \in KnownAgents
    /\ call.plan[2].agent \in call.plan[1].dependencies
    /\ call.executed = {2}
    /\ DOMAIN out.value = {call.plan[2].agent}

====
